---------------------------- MODULE Spec2Model ----------------------------
(***************************************************************************)
(* Points ledger, loyalty account, tiers and badge / achievement awards of *)
(* the loyalty platform, for one customer and one loyalty account.         *)
(*                                                                         *)
(* Reading of the source.  The gamification engine and the admin API name  *)
(* the customer's account as customer.loyalty_account and pass metadata=   *)
(* to Transaction.objects.create; the model reads those statements as what *)
(* they say: the account of the customer, and a stored ledger row.  An     *)
(* F('x') + n assignment followed by save() is an increment of the stored  *)
(* column by n.  Model.save() without update_fields writes every column of *)
(* the in-memory instance over the stored row.                             *)
(***************************************************************************)
EXTENDS Integers, Sequences, FiniteSets, TLC

VARIABLES
    account,              \* the stored customers_loyaltyaccount row
    ledger,               \* the stored loyalty_transaction rows, in creation order
    customer_badges,      \* badges b with a CustomerBadge(customer, b) row
    customer_achievements,\* achievements a with a CustomerAchievement(customer, a) row
    tiers,                \* points_threshold of the program's tiers, ascending
    last_op,              \* the entry point that ran last, with its argument
    result,               \* what that call raised and returned
    pc,                   \* per request: the statement it is at
    req,                  \* per request: the call it executes
    self_acct,            \* per request: its in-memory LoyaltyAccount instance
    iter,                 \* per request: the loop of check_and_award_*
    customer_challenges,  \* the CustomerChallenge rows, in joined_at order
    clock,                \* the calendar day and the minute of the day
    outcome,              \* what the last rule evaluation or rule query returned
    time,                 \* time.time(), in seconds
    cache,                \* the request times stored under the rate limit key
    memory,               \* RateLimiter.requests[key], the in-memory deque
    requests,             \* per request: its now and its copy of the stored list
    allowed,              \* the times of the calls that is_allowed let through
    redemption,           \* the stored rewards_redemption row
    rewards,              \* the stored rewards_reward row of the redemption
    self_redemption       \* per request: its in-memory Redemption instance

ledgerVars == <<account, ledger, customer_badges, customer_achievements>>
seqVars    == <<last_op, result>>
procVars   == <<pc, req, self_acct, iter>>
challengeVars == <<customer_challenges>>
ruleVars == <<clock, outcome>>
limiterVars == <<time, cache, memory, requests, allowed>>
redemptionVars == <<redemption, rewards, self_redemption>>
vars == <<account, ledger, customer_badges, customer_achievements, tiers,
          last_op, result, pc, req, self_acct, iter, customer_challenges,
          clock, outcome, time, cache, memory, requests, allowed,
          redemption, rewards, self_redemption>>

---------------------------------------------------------------------------
(* Bounds of the model *)

MaxLedger == 3

(* The last calendar day of the clock.                                     *)
MaxDay == 5

(* The last second of time.time().                                         *)
MaxTime == 3

(* The most the stored balance may exceed the ledger's sum when a check-in *)
(* begins.                                                                 *)
MaxDrift == 10

(* Point amounts the callers pass: the 600 / 800 steps of the tier         *)
(* scenario, and 0.  A view's argument is signed.                          *)
Amounts == {0, 600, 800}
SignedAmounts == Amounts \cup {0 - a : a \in Amounts}

Abs(n) == IF n < 0 THEN 0 - n ELSE n

NoTier == 0
None == -1

Procs == {1, 2}

AwardChecks == {"check_and_award_badges", "check_and_award_achievements"}

(* Amounts of the concurrent add_points / deduct_points requests.          *)
ConcAmounts == {10, 600}

---------------------------------------------------------------------------
(* Reference data *)

(* Tier tables: Bronze 0 / Silver 500 / Gold 1000, and a program whose     *)
(* lowest tier starts at 500 (no tier is eligible below it).               *)
TierTables == { <<0, 500, 1000>>, <<500, 1000>> }

(* Badge.objects.filter(tenant, is_active=True), in Meta.ordering.         *)
Badges == <<
    [badge_type |-> "milestone", type |-> "points", target |-> 1400, points_reward |-> 0],
    [badge_type |-> "milestone", type |-> "points", target |-> 600,  points_reward |-> 800] >>

(* Achievement.objects.filter(tenant, is_active=True), in Meta.ordering;   *)
(* badge_reward is an index into Badges, or None.                          *)
Achievements == <<
    [achievement_type |-> "milestone", type |-> "badges", target |-> 1,
     points_reward |-> 0,  badge_reward |-> None],
    [achievement_type |-> "milestone", type |-> "points", target |-> 600,
     points_reward |-> 10, badge_reward |-> 1] >>

---------------------------------------------------------------------------
(* Ledger rows *)

(* timezone.now(): logical time, one instant per ledger row.  The row a    *)
(* call creates and the last_activity it stamps carry the same instant.    *)
now == Len(ledger) + 1

(* A description: the text a query looks for in it.  "milestone_<n>" is    *)
(* kind "milestone" with threshold n; "Check-in at ..." is kind "check-in". *)
NoDescription == [kind |-> "", threshold |-> 0]

(* A row of loyalty_transaction; status defaults to "completed".  metadata *)
(* is <<>> or names the definition whose bonus the row is; timestamp is    *)
(* the calendar day of timezone.now().                                     *)
Transaction(points, transaction_type, metadata) ==
    [points |-> points, transaction_type |-> transaction_type,
     status |-> "completed", metadata |-> metadata,
     description |-> NoDescription, rule_applied |-> None,
     timestamp |-> clock.day]

RECURSIVE SumPoints(_, _)
SumPoints(s, positive_only) ==
    IF s = <<>> THEN 0
    ELSE LET e == s[1]
             counted == e.status # "cancelled" /\ (positive_only => e.points > 0)
         IN (IF counted THEN e.points ELSE 0) + SumPoints(Tail(s), positive_only)

---------------------------------------------------------------------------
(* LoyaltyAccount *)

EligibleTiers(lifetime_points) ==
    { i \in 1..Len(tiers) : tiers[i] <= lifetime_points }

HighestEligible(lifetime_points) ==
    CHOOSE i \in EligibleTiers(lifetime_points) :
        \A j \in EligibleTiers(lifetime_points) : tiers[j] <= tiers[i]

upgrade_tier(self, new_tier) == [self EXCEPT !.tier = new_tier]

(* check_tier_eligibility with order_by("points_threshold"): the lowest    *)
(* eligible tier instead of the highest.                                   *)
check_tier_eligibility_lowest(self) ==
    LET lowest == CHOOSE i \in EligibleTiers(self.lifetime_points) :
                      \A j \in EligibleTiers(self.lifetime_points) : tiers[i] <= tiers[j]
    IN IF EligibleTiers(self.lifetime_points) # {} /\ self.tier # lowest
       THEN upgrade_tier(self, lowest)
       ELSE self

(* The instance after check_tier_eligibility (its save() included).        *)
check_tier_eligibility(self) ==
    IF EligibleTiers(self.lifetime_points) # {}
       /\ self.tier # HighestEligible(self.lifetime_points)
    THEN upgrade_tier(self, HighestEligible(self.lifetime_points))
    ELSE self

(* add_points(points, description, rule=rule) run to completion on a       *)
(* freshly loaded instance.                                                *)
add_points_to(st, points, description, rule) ==
    LET saved == [st.account EXCEPT !.points_balance = @ + points,
                                    !.lifetime_points = @ + points,
                                    !.last_activity = Len(st.ledger) + 1]
    IN [ledger |-> Append(st.ledger,
                      [Transaction(points, "earn", <<>>) EXCEPT
                           !.description = description, !.rule_applied = rule]),
        account |-> check_tier_eligibility(saved)]

add_points_rule(points, description, rule) ==
    LET st == add_points_to([account |-> account, ledger |-> ledger],
                            points, description, rule)
    IN /\ ledger' = st.ledger
       /\ account' = st.account
       /\ result' = [raised |-> "none", returned |-> {}]

(* add_points(points).                                                     *)
add_points(points) == add_points_rule(points, NoDescription, None)

(* deduct_points without its balance check.                                *)
deduct_points_unchecked(points) ==
    /\ account' = [account EXCEPT !.points_balance = @ - points,
                                  !.last_activity = now]
    /\ ledger' = Append(ledger, Transaction(0 - points, "redeem", <<>>))
    /\ result' = [raised |-> "none", returned |-> {}]

(* deduct_points run to completion on a freshly loaded instance.           *)
deduct_points(points) ==
    IF account.points_balance < points
    THEN /\ result' = [raised |-> "ValueError", returned |-> {}]
         /\ UNCHANGED <<account, ledger>>
    ELSE /\ account' = [account EXCEPT !.points_balance = @ - points,
                                       !.last_activity = now]
         /\ ledger' = Append(ledger, Transaction(0 - points, "redeem", <<>>))
         /\ result' = [raised |-> "none", returned |-> {}]

---------------------------------------------------------------------------
(* Entry points, each run to completion *)

(* The record of a call: its name, its argument, and whether the call      *)
(* before it was the same entry point.                                     *)
Called(op, points) == [op |-> op, points |-> points, again |-> last_op.op = op]

call_add_points(points) ==
    /\ Len(ledger) < MaxLedger
    /\ add_points(points)
    /\ last_op' = Called("add_points", points)
    /\ UNCHANGED <<customer_badges, customer_achievements, tiers, limiterVars, redemptionVars, challengeVars, ruleVars, procVars>>

call_deduct_points(points) ==
    /\ Len(ledger) < MaxLedger
    /\ deduct_points(points)
    /\ last_op' = Called("deduct_points", points)
    /\ UNCHANGED <<customer_badges, customer_achievements, tiers, limiterVars, redemptionVars, challengeVars, ruleVars, procVars>>

adjust_customer_points(points) ==
    /\ Len(ledger) < MaxLedger
    /\ IF points > 0 THEN add_points(points) ELSE deduct_points(Abs(points))
    /\ last_op' = Called("adjust_customer_points", points)
    /\ UNCHANGED <<customer_badges, customer_achievements, tiers, limiterVars, redemptionVars, challengeVars, ruleVars, procVars>>

bulk_customer_action(points_adjustment) ==
    /\ Len(ledger) < MaxLedger
    /\ IF points_adjustment > 0
       THEN add_points(points_adjustment)
       ELSE deduct_points(Abs(points_adjustment))
    /\ last_op' = Called("bulk_customer_action", points_adjustment)
    /\ UNCHANGED <<customer_badges, customer_achievements, tiers, limiterVars, redemptionVars, challengeVars, ruleVars, procVars>>

(* action == 'adjust_points': the ledger row carries abs(points), the      *)
(* balance takes the signed value, lifetime_points and tier are untouched. *)
customer_action_api(points) ==
    /\ Len(ledger) < MaxLedger
    /\ ledger' = Append(ledger,
           Transaction(Abs(points), IF points > 0 THEN "earn" ELSE "redeem", <<>>))
    /\ account' = [account EXCEPT !.points_balance = @ + points]
    /\ result' = [raised |-> "none", returned |-> {}]
    /\ last_op' = Called("customer_action_api", points)
    /\ UNCHANGED <<customer_badges, customer_achievements, tiers, limiterVars, redemptionVars, challengeVars, ruleVars, procVars>>

(* Transaction.cancel / Transaction.verify on the i-th ledger row.         *)
cancel(i) ==
    /\ ledger' = [ledger EXCEPT ![i].status = "cancelled"]
    /\ result' = [raised |-> "none", returned |-> {}]
    /\ last_op' = Called("Transaction.cancel", 0)
    /\ UNCHANGED <<account, customer_badges, customer_achievements, tiers, limiterVars, redemptionVars, challengeVars, ruleVars, procVars>>

verify(i) ==
    /\ ledger' = [ledger EXCEPT ![i].status = "completed"]
    /\ result' = [raised |-> "none", returned |-> {}]
    /\ last_op' = Called("Transaction.verify", 0)
    /\ UNCHANGED <<account, customer_badges, customer_achievements, tiers, limiterVars, redemptionVars, challengeVars, ruleVars, procVars>>

---------------------------------------------------------------------------
(* Award engines.  A store st holds what a call reads and writes: the      *)
(* stored rows (account, ledger, customer_badges, customer_achievements),  *)
(* instance, the call's in-memory customer.loyalty_account (fetched on     *)
(* first access and then cached on the customer object), and awarded, the  *)
(* list the call returns.  customer_badges[b] counts the CustomerBadge     *)
(* rows of badge b.                                                        *)

NotLoaded == [loaded |-> FALSE]

(* A request's loop: the definition it is at, the list it will return, and *)
(* the definitions whose _award_* call returned None.                      *)
NoLoop == [i |-> 0, awarded |-> {}, refused |-> {}]

(* A request outside is_allowed.                                           *)
NoRequest == [now |-> 0, requests |-> <<>>]

(* No rule evaluated and no rule query made yet.                           *)
NoOutcome ==
    [rule |-> None, applicable |-> FALSE, points |-> 0, bonus_points |-> 0,
     reason |-> "none", raised |-> "none", marker |-> NoDescription,
     selected |-> <<>>]

loyalty_account(st) ==
    IF st.instance = NotLoaded THEN [st EXCEPT !.instance = st.account] ELSE st

BadgeCount(rows) ==
    LET RECURSIVE Sum(_)
        Sum(b) == IF b = 0 THEN 0 ELSE rows[b] + Sum(b - 1)
    IN Sum(Len(Badges))

(* The store after the criteria's reads (a "points" criterion reads        *)
(* customer.loyalty_account).                                              *)
ReadFor(st, definition) ==
    IF definition.type = "points" THEN loyalty_account(st) ELSE st

_check_milestone_badges(st, badge) ==
    IF badge.type = "points"
    THEN st.instance.lifetime_points >= badge.target
    ELSE IF badge.type = "transactions"
    THEN Len(st.ledger) >= badge.target
    ELSE FALSE

_check_badge_criteria(st, badge) ==
    IF badge.badge_type = "milestone"
    THEN _check_milestone_badges(st, badge)
    ELSE FALSE

(* The bonus of an award: one 'earn' row, then points_balance and          *)
(* lifetime_points assigned F() + reward and loyalty_account.save(): the   *)
(* two columns are incremented in the store, every other column is written *)
(* from the instance, and the instance then holds the two stored values.   *)
(* No tier check.                                                          *)
award_points(st, points_reward, metadata) ==
    IF points_reward > 0
    THEN LET s == loyalty_account(st)
         IN [s EXCEPT
               !.ledger = Append(@, Transaction(points_reward, "earn", metadata)),
               !.account = [s.instance EXCEPT
                   !.points_balance = s.account.points_balance + points_reward,
                   !.lifetime_points = s.account.lifetime_points + points_reward],
               !.instance.points_balance = s.account.points_balance + points_reward,
               !.instance.lifetime_points = s.account.lifetime_points + points_reward]
    ELSE st

(* An exception inside a transaction.atomic() block: the statement that    *)
(* raises, or "none".  The except clause of the caller catches it.         *)
Faults == {"none", "Transaction.objects.create", "save"}

Raised(st) == [st |-> st, raised |-> TRUE]
Returned(st) == [st |-> st, raised |-> FALSE]

(* The bonus statements of a block, up to the statement that raises.       *)
bonus_block(st, points_reward, metadata, fault) ==
    IF points_reward <= 0 THEN Returned(st)
    ELSE IF fault = "Transaction.objects.create" THEN Raised(st)
    ELSE IF fault = "save"
    THEN Raised([loyalty_account(st) EXCEPT
                   !.ledger = Append(@, Transaction(points_reward, "earn", metadata))])
    ELSE Returned(award_points(st, points_reward, metadata))

(* A block whose writes stay when it raises.                               *)
transaction_not_atomic(before, block) == block.st

(* with transaction.atomic(): a block that raises is rolled back.          *)
transaction_atomic(before, block) ==
    IF block.raised THEN before ELSE block.st

(* The statements of _award_badge's block.                                 *)
_award_badge_block(st, b, fault) ==
    IF st.customer_badges[b] > 0
    THEN Raised(st)
    ELSE LET created == [st EXCEPT !.customer_badges[b] = @ + 1]
             paid == bonus_block(created, Badges[b].points_reward,
                                 <<"badge_id", b>>, fault)
         IN IF paid.raised THEN paid
            ELSE Returned([paid.st EXCEPT !.awarded = @ \cup {b}])

(* _award_badge that pays the bonus but stores no CustomerBadge row.       *)
_award_badge_unrecorded(st, b) ==
    [award_points(st, Badges[b].points_reward, <<"badge_id", b>>)
         EXCEPT !.awarded = @ \cup {b}]

(* _award_badge on a table without the unique_together constraint.        *)
_award_badge_not_unique(st, b) ==
    [award_points(st, Badges[b].points_reward, <<"badge_id", b>>)
         EXCEPT !.customer_badges[b] = @ + 1,
                !.awarded = @ \cup {b}]

(* _award_badge: one transaction.atomic().  CustomerBadge is               *)
(* unique_together (customer, badge): creating a second row raises         *)
(* IntegrityError, the block rolls back and None is returned.              *)
_award_badge(st, b) ==
    IF st.customer_badges[b] > 0
    THEN st
    ELSE [award_points(st, Badges[b].points_reward, <<"badge_id", b>>)
              EXCEPT !.customer_badges[b] = @ + 1,
                     !.awarded = @ \cup {b}]

RECURSIVE check_and_award_badges_from(_, _)
check_and_award_badges_from(st, b) ==
    IF b > Len(Badges) THEN st
    ELSE IF st.customer_badges[b] > 0
    THEN check_and_award_badges_from(st, b + 1)
    ELSE IF _check_badge_criteria(ReadFor(st, Badges[b]), Badges[b])
    THEN check_and_award_badges_from(_award_badge(ReadFor(st, Badges[b]), b), b + 1)
    ELSE check_and_award_badges_from(ReadFor(st, Badges[b]), b + 1)

Store(instance, awarded) ==
    [account |-> account, ledger |-> ledger,
     customer_badges |-> customer_badges,
     customer_achievements |-> customer_achievements,
     instance |-> instance, awarded |-> awarded]

Commit(st) ==
    /\ account' = st.account
    /\ ledger' = st.ledger
    /\ customer_badges' = st.customer_badges
    /\ customer_achievements' = st.customer_achievements

check_and_award_badges ==
    LET st == check_and_award_badges_from(Store(NotLoaded, {}), 1)
    IN /\ Len(st.ledger) <= MaxLedger
       /\ Commit(st)
       /\ result' = [raised |-> "none", returned |-> st.awarded]
       /\ last_op' = Called("check_and_award_badges", 0)
       /\ UNCHANGED <<tiers, limiterVars, redemptionVars, challengeVars, ruleVars, procVars>>

---------------------------------------------------------------------------
(* AchievementEngine *)

_check_milestone_achievement(st, criteria) ==
    IF criteria.type = "points"
    THEN st.instance.lifetime_points >= criteria.target
    ELSE IF criteria.type = "badges"
    THEN BadgeCount(st.customer_badges) >= criteria.target
    ELSE FALSE

_check_achievement_criteria(st, achievement) ==
    IF achievement.achievement_type = "milestone"
    THEN _check_milestone_achievement(st, achievement)
    ELSE FALSE

(* CustomerBadge.objects.get_or_create(customer, badge).                   *)
get_or_create(rows, b) ==
    IF rows[b] > 0 THEN rows ELSE [rows EXCEPT ![b] = 1]

(* _award_achievement: the record, the bonus, and get_or_create of the     *)
(* badge_reward, in one transaction.atomic(); CustomerAchievement is       *)
(* unique_together (customer, achievement).                                *)
_award_achievement(st, a) ==
    IF st.customer_achievements[a] > 0
    THEN st
    ELSE LET paid == award_points(st, Achievements[a].points_reward,
                                  <<"achievement_id", a>>)
         IN [paid EXCEPT
               !.customer_achievements[a] = @ + 1,
               !.customer_badges =
                   IF Achievements[a].badge_reward # None
                   THEN get_or_create(@, Achievements[a].badge_reward) ELSE @,
               !.awarded = @ \cup {a}]

(* The statements of _award_achievement's block.                           *)
_award_achievement_block(st, a, fault) ==
    IF st.customer_achievements[a] > 0
    THEN Raised(st)
    ELSE LET created == [st EXCEPT !.customer_achievements[a] = @ + 1]
             paid == bonus_block(created, Achievements[a].points_reward,
                                 <<"achievement_id", a>>, fault)
         IN IF paid.raised THEN paid
            ELSE Returned([paid.st EXCEPT
                    !.customer_badges =
                        IF Achievements[a].badge_reward # None
                        THEN get_or_create(@, Achievements[a].badge_reward) ELSE @,
                    !.awarded = @ \cup {a}])

RECURSIVE check_and_award_achievements_from(_, _)
check_and_award_achievements_from(st, a) ==
    IF a > Len(Achievements) THEN st
    ELSE IF st.customer_achievements[a] > 0
    THEN check_and_award_achievements_from(st, a + 1)
    ELSE IF _check_achievement_criteria(ReadFor(st, Achievements[a]), Achievements[a])
    THEN check_and_award_achievements_from(
             _award_achievement(ReadFor(st, Achievements[a]), a), a + 1)
    ELSE check_and_award_achievements_from(ReadFor(st, Achievements[a]), a + 1)

check_and_award_achievements ==
    LET st == check_and_award_achievements_from(Store(NotLoaded, {}), 1)
    IN /\ Len(st.ledger) <= MaxLedger
       /\ Commit(st)
       /\ result' = [raised |-> "none", returned |-> st.awarded]
       /\ last_op' = Called("check_and_award_achievements", 0)
       /\ UNCHANGED <<tiers, limiterVars, redemptionVars, challengeVars, ruleVars, procVars>>

---------------------------------------------------------------------------
(* ChallengeEngine *)

(* The tenant's challenges, all active and ongoing: challenge_type,        *)
(* target_value, points_reward and badge_reward (a badge or None).         *)
Challenges == <<
    [challenge_type |-> "points", target_value |-> 600,
     points_reward |-> 800, badge_reward |-> 1],
    [challenge_type |-> "points", target_value |-> 1400,
     points_reward |-> 0, badge_reward |-> None] >>

Participating(rows, c) == \E k \in 1..Len(rows) : rows[k].challenge = c

(* create_challenge_participation: None when the customer already         *)
(* participates, else a new active CustomerChallenge.                      *)
create_challenge_participation(c) ==
    /\ customer_challenges' =
           IF Participating(customer_challenges, c)
           THEN customer_challenges
           ELSE Append(customer_challenges,
                       [challenge |-> c, status |-> "active", current_progress |-> 0])
    /\ last_op' = Called("create_challenge_participation", c)
    /\ result' = [raised |-> "none",
                  returned |-> IF Participating(customer_challenges, c) THEN {} ELSE {c}]
    /\ UNCHANGED <<ledgerVars, tiers, limiterVars, redemptionVars, ruleVars, procVars>>

(* Sum('points') over the 'earn' rows of the challenge period.             *)
RECURSIVE EarnedPoints(_)
EarnedPoints(rows) ==
    IF rows = <<>> THEN 0
    ELSE (IF rows[1].transaction_type = "earn" THEN rows[1].points ELSE 0)
         + EarnedPoints(Tail(rows))

_calculate_challenge_progress(rows, challenge) ==
    IF challenge.challenge_type \in {"points", "spending"}
    THEN EarnedPoints(rows)
    ELSE 0

(* update_progress that stores the progress and leaves the status.         *)
update_progress_unchecked(cc, new_progress) ==
    [cc EXCEPT !.current_progress = new_progress]

(* CustomerChallenge.update_progress: progress_percentage reaches 100 when *)
(* new_progress >= target_value.                                           *)
update_progress(cc, new_progress) ==
    [cc EXCEPT !.current_progress = new_progress,
               !.status = IF new_progress >= Challenges[cc.challenge].target_value
                             /\ @ = "active"
                          THEN "completed" ELSE @]

(* The statements of _complete_challenge's block.                          *)
_complete_challenge_block(st, c, fault) ==
    LET paid == bonus_block(st, Challenges[c].points_reward, <<"challenge_id", c>>, fault)
    IN IF paid.raised THEN paid
       ELSE Returned([paid.st EXCEPT
               !.customer_badges =
                   IF Challenges[c].badge_reward # None
                   THEN get_or_create(@, Challenges[c].badge_reward) ELSE @])

(* _complete_challenge: one transaction.atomic(); except Exception: pass.  *)
_complete_challenge(st, c, fault) ==
    transaction_atomic(st, _complete_challenge_block(st, c, fault))

(* s.st is the store, s.parts the CustomerChallenge rows; participation k  *)
(* reaches its customer, and so the account, through its own instance.     *)
_update_single_challenge_progress(s, k, fault) ==
    LET cc == s.parts[k]
        new_progress == _calculate_challenge_progress(s.st.ledger, Challenges[cc.challenge])
        updated == update_progress(cc, new_progress)
    IN IF new_progress > cc.current_progress
       THEN [parts |-> [s.parts EXCEPT ![k] = updated],
             st |-> IF updated.status = "completed"
                    THEN _complete_challenge([s.st EXCEPT !.instance = NotLoaded],
                                             cc.challenge, fault)
                    ELSE s.st]
       ELSE s

(* The loop over the active participations, latest joined first.           *)
RECURSIVE update_challenge_progress_from(_, _, _)
update_challenge_progress_from(s, k, fault) ==
    IF k = 0 THEN s
    ELSE IF s.parts[k].status = "active"
    THEN update_challenge_progress_from(
             _update_single_challenge_progress(s, k, fault), k - 1, fault)
    ELSE update_challenge_progress_from(s, k - 1, fault)

update_challenge_progress(fault) ==
    LET s == update_challenge_progress_from(
                 [st |-> Store(NotLoaded, {}), parts |-> customer_challenges],
                 Len(customer_challenges), fault)
    IN /\ Len(s.st.ledger) <= MaxLedger
       /\ Commit(s.st)
       /\ customer_challenges' = s.parts
       /\ last_op' = Called("update_challenge_progress", 0)
       /\ result' = [raised |-> "none", returned |-> {}]
       /\ UNCHANGED <<tiers, limiterVars, redemptionVars, ruleVars, procVars>>

NextChallenge ==
    \/ \E points \in Amounts : call_add_points(points)
    \/ \E c \in 1..Len(Challenges) : create_challenge_participation(c)
    \/ \E fault \in Faults : update_challenge_progress(fault)

---------------------------------------------------------------------------
(* Calendar.  Day 0 is Saturday 2024-01-27, so that the days of the model  *)
(* cross a week boundary (day 2, a Monday) and a month boundary (day 5,    *)
(* February 1st).  Minutes count from midnight.                            *)

(* datetime.weekday(): 0 = Monday .. 6 = Sunday.                           *)
Weekday(day) == (day + 5) % 7

(* Monday of the week of day, and the first day of its month.              *)
WeekStart(day) == day - Weekday(day)
MonthStart(day) == IF day >= 5 THEN 5 ELSE 5 - 31

(* A DateTimeField value, in minutes; timezone.now().                      *)
DayStart(day) == day * 1440
Timestamp(clk) == DayStart(clk.day) + clk.minute

(* The minutes of the day the clock takes: 18:00, 19:00 and 20:00.         *)
Times == {1080, 1140, 1200}

(* datetime.strptime(text, '%H:%M').time() of a text <<hours, minutes>>.   *)
ParseTime(text) == text[1] * 60 + text[2]

(* int(): truncation toward zero of n / d.                                 *)
Trunc(n, d) == IF n >= 0 THEN n \div d ELSE 0 - ((0 - n) \div d)

---------------------------------------------------------------------------
(* Rules.  conditions is the JSON document, a record that may lack keys;   *)
(* a multiplier is a float given in halves (4 is 2.0, 3 is 1.5), a value   *)
(* binary floating point holds exactly.  Dates are minutes, end_date may   *)
(* be None.                                                                *)

Rule(points, conditions, active, location_based, start_date, end_date, priority, created_at) ==
    [points |-> points, conditions |-> conditions, active |-> active,
     location_based |-> location_based, start_date |-> start_date,
     end_date |-> end_date, priority |-> priority, created_at |-> created_at]

Rules == <<
    \* 1: create_happy_hour_rule: 17:00-19:00 Mon-Fri, 2.0x, base 10
    Rule(10, [type |-> "time_based", multiplier |-> 4,
              time_windows |-> << [start |-> <<17, 0>>, end |-> <<19, 0>>,
                                   days |-> {0, 1, 2, 3, 4}] >>],
         TRUE, FALSE, DayStart(0), None, 0, 1),
    \* 2: 17:00-19:00 every day, 1.5x, base 5; ends with day 1
    Rule(5, [type |-> "time_based", multiplier |-> 3,
             time_windows |-> << [start |-> <<17, 0>>, end |-> <<19, 0>>] >>],
         TRUE, TRUE, DayStart(0), DayStart(2), 5, 2),
    \* 3: create_streak_rule: daily, limit 1, streak bonus 5
    Rule(10, [type |-> "frequency_based", frequency_type |-> "daily",
              limit |-> 1, streak_bonus |-> 5],
         TRUE, FALSE, DayStart(0), None, 5, 3),
    \* 4: weekly, limit 2; starts with day 3
    Rule(10, [type |-> "frequency_based", frequency_type |-> "weekly", limit |-> 2],
         TRUE, FALSE, DayStart(3), None, 1, 4),
    \* 5: monthly, limit 1; inactive
    Rule(10, [type |-> "frequency_based", frequency_type |-> "monthly", limit |-> 1],
         FALSE, FALSE, DayStart(0), None, 9, 5),
    \* 6: milestones 500 and 1000 of lifetime_points
    Rule(0, [type |-> "milestone_based",
             milestones |-> << [threshold |-> 500, bonus_points |-> 50],
                               [threshold |-> 1000, bonus_points |-> 100] >>],
         TRUE, FALSE, DayStart(0), None, 2, 6),
    \* 7: create_tier_multiplier_rule
    Rule(10, [type |-> "tier_based",
              tier_multipliers |-> [bronze |-> 2, silver |-> 3, gold |-> 4]],
         TRUE, FALSE, DayStart(0), None, 3, 7),
    \* 8: a type that is none of the seven families
    Rule(10, [type |-> "double_points"], TRUE, TRUE, DayStart(0), None, 5, 8),
    \* 9: no type tag
    Rule(10, [multiplier |-> 4], TRUE, FALSE, DayStart(0), None, 6, 9),
    \* 10: a time window without start
    Rule(10, [type |-> "time_based", multiplier |-> 4,
              time_windows |-> << [end |-> <<19, 0>>] >>],
         TRUE, FALSE, DayStart(0), None, 7, 10),
    \* 11: a milestone without threshold
    Rule(0, [type |-> "milestone_based", milestones |-> << [bonus_points |-> 50] >>],
         TRUE, FALSE, DayStart(0), None, 8, 11),
    \* 12: no conditions
    Rule(10, <<>>, TRUE, FALSE, DayStart(0), None, 10, 12),
    \* 13: milestones 100 and 1000 of lifetime_points
    Rule(0, [type |-> "milestone_based",
             milestones |-> << [threshold |-> 100, bonus_points |-> 10],
                               [threshold |-> 1000, bonus_points |-> 100] >>],
         TRUE, FALSE, DayStart(0), None, 4, 13),
    \* 14: tier multipliers of a program whose lowest tier is Silver
    Rule(10, [type |-> "tier_based",
              tier_multipliers |-> [silver |-> 3, gold |-> 4]],
         TRUE, FALSE, DayStart(0), None, 3, 14) >>

Has(c, key) == key \in DOMAIN c

(* dict.get(key, default).                                                 *)
Get(c, key, default) == IF Has(c, key) THEN c[key] ELSE default

NotApplicable(reason) ==
    [NoOutcome EXCEPT !.reason = reason]

Applicable(points, bonus_points, reason) ==
    [NoOutcome EXCEPT !.applicable = TRUE, !.points = points,
                      !.bonus_points = bonus_points, !.reason = reason]

(* An exception leaving evaluate_advanced_rule.                            *)
Raises(error) == [NoOutcome EXCEPT !.raised = error]

---------------------------------------------------------------------------
(* AdvancedRuleEngine.  r is the rule's index in Rules, rows the ledger,   *)
(* acct the customer's account, clk the clock.                             *)

(* The loop over the time windows: "yes" at the first window that holds    *)
(* now, "KeyError" at a window without start or end.                       *)
RECURSIVE InTimeWindow(_, _, _)
InTimeWindow(time_windows, i, clk) ==
    IF i > Len(time_windows) THEN "no"
    ELSE LET window == time_windows[i]
         IN IF ~ Has(window, "start") \/ ~ Has(window, "end") THEN "KeyError"
            ELSE IF /\ Get(window, "days", {}) = {} \/ Weekday(clk.day) \in window.days
                    /\ ParseTime(window.start) <= clk.minute
                    /\ clk.minute <= ParseTime(window.end)
            THEN "yes"
            ELSE InTimeWindow(time_windows, i + 1, clk)

_process_time_based_rule(r, conditions, clk) ==
    LET found == InTimeWindow(Get(conditions, "time_windows", <<>>), 1, clk)
        multiplier == Get(conditions, "multiplier", 2)
        base_points == Rules[r].points
        bonus_points == Trunc(base_points * (multiplier - 2), 2)
    IN IF found = "KeyError" THEN Raises("KeyError")
       ELSE IF found = "no" THEN NotApplicable("Outside time window")
       ELSE Applicable(base_points + bonus_points, bonus_points, "Time-based bonus")

(* The completed rows attributed to rule r with a timestamp in days.       *)
RuleRows(rows, r, days) ==
    { i \in 1..Len(rows) : /\ rows[i].rule_applied = r
                           /\ rows[i].timestamp \in days
                           /\ rows[i].status = "completed" }

(* _calculate_streak: the days, from today backward, that have a completed *)
(* row of the rule, up to the first day without one; range(30).            *)
RECURSIVE _calculate_streak(_, _, _, _)
_calculate_streak(rows, r, today, i) ==
    IF i >= 30 \/ RuleRows(rows, r, {today - i}) = {} THEN 0
    ELSE 1 + _calculate_streak(rows, r, today, i + 1)

(* f'{frequency_type.title()} limit reached'.                              *)
LimitReached(frequency_type) ==
    CASE frequency_type = "daily" -> "Daily limit reached"
      [] frequency_type = "weekly" -> "Weekly limit reached"
      [] frequency_type = "monthly" -> "Monthly limit reached"

(* _process_frequency_rule that refuses only above the limit.              *)
_process_frequency_rule_above(r, conditions, rows, clk) ==
    LET frequency_type == Get(conditions, "frequency_type", "daily")
        window_start == CASE frequency_type = "daily" -> clk.day
                          [] frequency_type = "weekly" -> WeekStart(clk.day)
                          [] frequency_type = "monthly" -> MonthStart(clk.day)
        transaction_count ==
            Cardinality({ i \in 1..Len(rows) : /\ rows[i].rule_applied = r
                                               /\ rows[i].timestamp >= window_start
                                               /\ rows[i].status = "completed" })
    IN IF transaction_count > Get(conditions, "limit", 1)
       THEN NotApplicable(LimitReached(frequency_type))
       ELSE Applicable(Rules[r].points, 0, "Frequency rule applied")

_process_frequency_rule(r, conditions, rows, clk) ==
    LET frequency_type == Get(conditions, "frequency_type", "daily")
        limit == Get(conditions, "limit", 1)
        streak_bonus == Get(conditions, "streak_bonus", 0)
        window_start == CASE frequency_type = "daily" -> clk.day
                          [] frequency_type = "weekly" -> WeekStart(clk.day)
                          [] frequency_type = "monthly" -> MonthStart(clk.day)
        transaction_count ==
            Cardinality({ i \in 1..Len(rows) : /\ rows[i].rule_applied = r
                                               /\ rows[i].timestamp >= window_start
                                               /\ rows[i].status = "completed" })
        bonus_points == IF streak_bonus > 0
                        THEN _calculate_streak(rows, r, clk.day, 0) * streak_bonus
                        ELSE 0
    IN IF frequency_type \notin {"daily", "weekly", "monthly"}
       THEN NotApplicable("Invalid frequency type")
       ELSE IF transaction_count >= limit
       THEN NotApplicable(LimitReached(frequency_type))
       ELSE Applicable(Rules[r].points + bonus_points, bonus_points,
                       "Frequency rule applied")

(* Tier.name of the program's tiers, lowest threshold first.               *)
TierNames ==
    IF Len(tiers) = 3 THEN <<"Bronze", "Silver", "Gold">> ELSE <<"Silver", "Gold">>

(* str.lower().                                                            *)
Lower(name) ==
    CASE name \in {"Bronze", "bronze"} -> "bronze"
      [] name \in {"Silver", "silver"} -> "silver"
      [] name \in {"Gold", "gold"} -> "gold"

_process_tier_rule(r, conditions, acct) ==
    LET tier_multipliers == Get(conditions, "tier_multipliers", <<>>)
        tier_name == IF acct.tier = NoTier THEN "bronze"
                     ELSE Lower(TierNames[acct.tier])
        multiplier == Get(tier_multipliers, tier_name, 2)
        base_points == Rules[r].points
        total_points == Trunc(base_points * multiplier, 2)
    IN Applicable(total_points, total_points - base_points, "Tier-based bonus")

(* description__icontains "milestone_<threshold>": the text of threshold   *)
(* is found in "milestone_<n>" when its digits begin those of n.           *)
ContainsMilestone(description, threshold) ==
    /\ description.kind = "milestone"
    /\ \/ description.threshold = threshold
       \/ \E d \in {10, 100, 1000} :
             description.threshold >= d /\ description.threshold \div d = threshold

milestone_awarded(rows, r, threshold) ==
    \E i \in 1..Len(rows) :
        rows[i].rule_applied = r /\ ContainsMilestone(rows[i].description, threshold)

_process_milestone_rule(r, conditions, rows, acct) ==
    LET milestone_type == Get(conditions, "milestone_type", "lifetime_points")
        milestones == Get(conditions, "milestones", <<>>)
        current_value ==
            IF milestone_type = "lifetime_points" THEN acct.lifetime_points
            ELSE Cardinality({ i \in 1..Len(rows) :
                                 /\ rows[i].transaction_type = "earn"
                                 /\ rows[i].description.kind = "check-in" })
        reached == { k \in 1..Len(milestones) :
                       /\ current_value >= milestones[k].threshold
                       /\ ~ milestone_awarded(rows, r, milestones[k].threshold) }
        \* the last one of the loop over sorted(milestones, key=threshold)
        applicable_milestone ==
            CHOOSE k \in reached :
                \A j \in reached :
                    \/ milestones[j].threshold < milestones[k].threshold
                    \/ milestones[j].threshold = milestones[k].threshold /\ j <= k
    IN IF milestone_type \notin {"lifetime_points", "total_visits"}
       THEN NotApplicable("Invalid milestone type")
       ELSE IF \E k \in 1..Len(milestones) : ~ Has(milestones[k], "threshold")
       THEN Raises("KeyError")
       ELSE IF reached = {} THEN NotApplicable("No new milestones reached")
       ELSE IF ~ Has(milestones[applicable_milestone], "bonus_points")
       THEN Raises("KeyError")
       ELSE [Applicable(milestones[applicable_milestone].bonus_points,
                        milestones[applicable_milestone].bonus_points,
                        "Milestone reached")
                EXCEPT !.marker = [kind |-> "milestone",
                                   threshold |-> milestones[applicable_milestone].threshold]]

_process_basic_rule(r) ==
    Applicable(Rules[r].points, 0, "Basic rule applied")

(* The rule types of rule_processors.  The table Rules holds no            *)
(* combo_based, seasonal or location_chain rule.                           *)
rule_processors ==
    {"time_based", "frequency_based", "tier_based", "combo_based",
     "milestone_based", "seasonal", "location_chain"}

evaluate_advanced_rule(r, rows, acct, clk) ==
    LET conditions == Rules[r].conditions
        rule_type == Get(conditions, "type", "basic")
    IN IF DOMAIN conditions = {}
       THEN NotApplicable("No conditions defined")
       ELSE CASE rule_type = "time_based" ->
                     _process_time_based_rule(r, conditions, clk)
              [] rule_type = "frequency_based" ->
                     _process_frequency_rule(r, conditions, rows, clk)
              [] rule_type = "tier_based" ->
                     _process_tier_rule(r, conditions, acct)
              [] rule_type = "milestone_based" ->
                     _process_milestone_rule(r, conditions, rows, acct)
              [] rule_type \notin rule_processors ->
                     _process_basic_rule(r)

---------------------------------------------------------------------------
(* Rule selection *)

(* Rule.Meta.ordering: -priority, then created_at.                         *)
Before(r, q) ==
    \/ Rules[r].priority > Rules[q].priority
    \/ Rules[r].priority = Rules[q].priority /\ Rules[r].created_at < Rules[q].created_at

RECURSIVE Ordered(_)
Ordered(S) ==
    IF S = {} THEN <<>>
    ELSE LET first == CHOOSE r \in S : \A q \in S \ {r} : Before(r, q)
         IN <<first>> \o Ordered(S \ {first})

(* LoyaltyProgram.get_active_rules: end_date__gte matches no NULL.         *)
get_active_rules(clk) ==
    Ordered({ r \in 1..Len(Rules) :
                /\ Rules[r].active
                /\ Rules[r].start_date <= Timestamp(clk)
                /\ Rules[r].end_date # None
                /\ Rules[r].end_date >= Timestamp(clk) })

(* The queryset of CheckIn.process_rules.                                  *)
process_rules_filter(clk) ==
    Ordered({ r \in 1..Len(Rules) :
                /\ Rules[r].active
                /\ Rules[r].location_based
                /\ Rules[r].start_date <= Timestamp(clk)
                /\ Rules[r].end_date = None \/ Rules[r].end_date >= Timestamp(clk) })

is_applicable(r, clk, location) ==
    /\ Rules[r].active
    /\ ~ (\/ Rules[r].start_date > Timestamp(clk)
          \/ Rules[r].end_date # None /\ Rules[r].end_date < Timestamp(clk))
    /\ ~ (Rules[r].location_based /\ ~ location)

(* Rule.execute_action: the rule's points, or None.                        *)
execute_action(r, clk, location) ==
    IF is_applicable(r, clk, location) THEN Rules[r].points ELSE None

(* The loop of CheckIn.process_rules over the selected rules; s holds the  *)
(* account, the ledger and points_earned.                                  *)
RECURSIVE process_rules_from(_, _, _, _)
process_rules_from(s, rules, i, clk) ==
    IF i > Len(rules) THEN s
    ELSE LET r == rules[i]
             points == execute_action(r, clk, TRUE)
         IN IF is_applicable(r, clk, TRUE) /\ points # None /\ points # 0
            THEN LET st == add_points_to(s, points,
                                         [kind |-> "check-in", threshold |-> 0], r)
                 IN process_rules_from(
                        [account |-> st.account, ledger |-> st.ledger,
                         points_earned |-> s.points_earned + points],
                        rules, i + 1, clk)
            ELSE process_rules_from(s, rules, i + 1, clk)

---------------------------------------------------------------------------
(* Rule entry points *)

(* The clock moves on within the day or to the next day.                   *)
tick(day, minute) ==
    /\ \/ day = clock.day /\ minute > clock.minute
       \/ day = clock.day + 1
    /\ clock' = [day |-> day, minute |-> minute]
    /\ UNCHANGED <<ledgerVars, tiers, limiterVars, redemptionVars, challengeVars, outcome, seqVars, procVars>>

next_day == tick(clock.day + 1, clock.minute)

(* The rules whose evaluation queries the ledger rows attributed to them.  *)
LedgerRules ==
    { r \in 1..Len(Rules) :
        Get(Rules[r].conditions, "type", "basic") \in {"frequency_based", "milestone_based"} }

(* evaluate_advanced_rule for rule r.  The evaluator writes nothing and    *)
(* the source holds no caller of it; the applicable result of a rule whose *)
(* evaluation queries its own ledger rows is appended with add_points,     *)
(* attributed to the rule and carrying the marker of the milestone paid.   *)
apply_advanced_rule(r) ==
    LET evaluated == [evaluate_advanced_rule(r, ledger, account, clock) EXCEPT !.rule = r]
    IN /\ outcome' = evaluated
       /\ IF evaluated.applicable /\ r \in LedgerRules
          THEN /\ Len(ledger) < MaxLedger
               /\ add_points_rule(evaluated.points, evaluated.marker, r)
          ELSE UNCHANGED <<account, ledger, result>>
       /\ UNCHANGED <<customer_badges, customer_achievements, tiers, limiterVars, redemptionVars, challengeVars,
                      clock, last_op, procVars>>

call_get_active_rules ==
    /\ outcome' = [NoOutcome EXCEPT !.selected = get_active_rules(clock),
                                    !.reason = "get_active_rules"]
    /\ UNCHANGED <<ledgerVars, tiers, limiterVars, redemptionVars, challengeVars, clock, seqVars, procVars>>

process_rules ==
    LET rules == process_rules_filter(clock)
        s == process_rules_from([account |-> account, ledger |-> ledger,
                                 points_earned |-> 0], rules, 1, clock)
    IN /\ Len(s.ledger) <= MaxLedger
       /\ account' = s.account
       /\ ledger' = s.ledger
       /\ outcome' = [NoOutcome EXCEPT !.selected = rules, !.points = s.points_earned,
                                       !.reason = "process_rules"]
       /\ UNCHANGED <<customer_badges, customer_achievements, tiers, limiterVars, redemptionVars, challengeVars,
                      clock, seqVars, procVars>>

(* Evaluations of the rules that query their ledger rows, day after day.   *)
NextRules ==
    \/ clock.day < MaxDay /\ next_day
    \/ \E r \in LedgerRules : apply_advanced_rule(r)
    \/ \E points \in {1200} : call_add_points(points)

(* Evaluations of the other rules and the rule queries, at any time.       *)
NextEval ==
    \/ \E day \in 0..MaxDay, minute \in Times : tick(day, minute)
    \/ \E r \in 1..Len(Rules) \ LedgerRules : apply_advanced_rule(r)
    \/ call_get_active_rules
    \/ process_rules

---------------------------------------------------------------------------
Init ==
    /\ account = [points_balance |-> 0, lifetime_points |-> 0,
                  tier |-> NoTier, last_activity |-> None]
    /\ ledger = <<>>
    /\ customer_badges = [b \in 1..Len(Badges) |-> 0]
    /\ customer_achievements = [a \in 1..Len(Achievements) |-> 0]
    /\ tiers \in TierTables
    /\ last_op = [op |-> "none", points |-> 0, again |-> FALSE]
    /\ result = [raised |-> "none", returned |-> {}]
    /\ pc = [p \in Procs |-> "idle"]
    /\ req = [p \in Procs |-> [op |-> "none", points |-> 0]]
    /\ self_acct = [p \in Procs |-> NotLoaded]
    /\ iter = [p \in Procs |-> NoLoop]
    /\ customer_challenges = <<>>
    /\ clock = [day |-> 0, minute |-> 1080]
    /\ outcome = NoOutcome
    /\ time = 0
    /\ cache = <<>>
    /\ memory = <<>>
    /\ requests = [p \in Procs |-> NoRequest]
    /\ allowed = <<>>
    /\ redemption = [status |-> "pending", points_used |-> 600]
    /\ rewards = [quantity_available |-> 0]
    /\ self_redemption = [p \in Procs |-> NotLoaded]

Next ==
    \/ \E points \in Amounts : call_add_points(points)
    \/ \E points \in Amounts : call_deduct_points(points)
    \/ \E points \in SignedAmounts : adjust_customer_points(points)
    \/ \E points \in SignedAmounts : bulk_customer_action(points)
    \/ \E points \in SignedAmounts : customer_action_api(points)
    \/ \E i \in 1..Len(ledger) : cancel(i)
    \/ \E i \in 1..Len(ledger) : verify(i)
    \/ check_and_award_badges
    \/ check_and_award_achievements

Spec == Init /\ [][Next]_vars

SpecChallenge == Init /\ [][NextChallenge]_vars

SpecRules == Init /\ [][NextRules]_vars

SpecEval == Init /\ [][NextEval]_vars

---------------------------------------------------------------------------
(* Concurrent requests on the account, statement by statement.  Each       *)
(* request works on the instance it fetched; save() writes every column of *)
(* that instance over the stored row.                                      *)

InFlight == { q \in Procs : pc[q] \in {"loaded", "saved"} }

(* The view fetches the account and calls add_points / deduct_points.      *)
begin(p, op, points) ==
    /\ pc[p] = "idle"
    /\ Len(ledger) + Cardinality(InFlight) < MaxLedger
    /\ req' = [req EXCEPT ![p] = [op |-> op, points |-> points]]
    /\ self_acct' = [self_acct EXCEPT ![p] = account]
    /\ pc' = [pc EXCEPT ![p] = "loaded"]
    /\ UNCHANGED <<ledgerVars, tiers, limiterVars, redemptionVars, challengeVars, ruleVars, seqVars, iter>>

(* add_points, lines 103-106: the increments on the instance, and save().  *)
add_points_save(p) ==
    /\ pc[p] = "loaded" /\ req[p].op = "add_points"
    /\ self_acct' = [self_acct EXCEPT ![p] =
           [@ EXCEPT !.points_balance = @ + req[p].points,
                     !.lifetime_points = @ + req[p].points,
                     !.last_activity = now]]
    /\ account' = self_acct'[p]
    /\ pc' = [pc EXCEPT ![p] = "saved"]
    /\ UNCHANGED <<ledger, customer_badges, customer_achievements, tiers, limiterVars, redemptionVars, challengeVars, ruleVars,
                   seqVars, req, iter>>

(* deduct_points, lines 127-132: the check on the instance, the decrement, *)
(* and save().                                                             *)
deduct_points_save(p) ==
    /\ pc[p] = "loaded" /\ req[p].op = "deduct_points"
    /\ IF self_acct[p].points_balance < req[p].points
       THEN /\ pc' = [pc EXCEPT ![p] = "raised"]
            /\ UNCHANGED <<account, self_acct>>
       ELSE /\ self_acct' = [self_acct EXCEPT ![p] =
                   [@ EXCEPT !.points_balance = @ - req[p].points,
                             !.last_activity = now]]
            /\ account' = self_acct'[p]
            /\ pc' = [pc EXCEPT ![p] = "saved"]
    /\ UNCHANGED <<ledger, customer_badges, customer_achievements, tiers, limiterVars, redemptionVars, challengeVars, ruleVars,
                   seqVars, req, iter>>

(* Transaction.objects.create of add_points / deduct_points.               *)
create_transaction(p) ==
    /\ pc[p] = "saved"
    /\ ledger' = Append(ledger,
           IF req[p].op = "add_points"
           THEN Transaction(req[p].points, "earn", <<>>)
           ELSE Transaction(0 - req[p].points, "redeem", <<>>))
    /\ pc' = [pc EXCEPT ![p] = IF req[p].op = "add_points" THEN "created" ELSE "done"]
    /\ UNCHANGED <<account, customer_badges, customer_achievements, tiers, limiterVars, redemptionVars, challengeVars, ruleVars,
                   seqVars, req, self_acct, iter>>

(* add_points, line 119: check_tier_eligibility on the instance;           *)
(* upgrade_tier saves the instance.                                        *)
tier_check(p) ==
    /\ pc[p] = "created"
    /\ self_acct' = [self_acct EXCEPT ![p] = check_tier_eligibility(@)]
    /\ account' = IF self_acct'[p] # self_acct[p] THEN self_acct'[p] ELSE account
    /\ pc' = [pc EXCEPT ![p] = "done"]
    /\ UNCHANGED <<ledger, customer_badges, customer_achievements, tiers, limiterVars, redemptionVars, challengeVars, ruleVars,
                   seqVars, req, iter>>

(* The view returns its response.                                          *)
finish(p) ==
    /\ pc[p] \in {"done", "raised"}
    /\ pc' = [pc EXCEPT ![p] = "idle"]
    /\ self_acct' = [self_acct EXCEPT ![p] = NotLoaded]
    /\ iter' = [iter EXCEPT ![p] = NoLoop]
    /\ UNCHANGED <<ledgerVars, tiers, limiterVars, redemptionVars, challengeVars, ruleVars, seqVars, req>>

NextConc ==
    \/ \E p \in Procs, op \in {"add_points", "deduct_points"}, points \in ConcAmounts :
           begin(p, op, points)
    \/ \E p \in Procs : add_points_save(p)
    \/ \E p \in Procs : deduct_points_save(p)
    \/ \E p \in Procs : create_transaction(p)
    \/ \E p \in Procs : tier_check(p)
    \/ \E p \in Procs : finish(p)

SpecConc == Init /\ [][NextConc]_vars

---------------------------------------------------------------------------
(* Concurrent check_and_award_badges / check_and_award_achievements calls  *)
(* for the customer, statement by statement; each transaction.atomic()     *)
(* block commits in one step.                                              *)

Definitions(op) == IF op = "check_and_award_badges" THEN Badges ELSE Achievements

Held(op, i) ==
    IF op = "check_and_award_badges"
    THEN customer_badges[i] > 0 ELSE customer_achievements[i] > 0

begin_check(p, op) ==
    /\ pc[p] = "idle"
    /\ req' = [req EXCEPT ![p] = [op |-> op, points |-> 0]]
    /\ iter' = [iter EXCEPT ![p] = [i |-> 1, awarded |-> {}, refused |-> {}]]
    /\ pc' = [pc EXCEPT ![p] = "exists"]
    /\ UNCHANGED <<ledgerVars, tiers, limiterVars, redemptionVars, challengeVars, ruleVars, seqVars, self_acct>>

(* The loop head and the "already has it?" query.                          *)
exists_step(p) ==
    /\ pc[p] = "exists"
    /\ IF iter[p].i > Len(Definitions(req[p].op))
       THEN pc' = [pc EXCEPT ![p] = "done"] /\ UNCHANGED iter
       ELSE IF Held(req[p].op, iter[p].i)
       THEN iter' = [iter EXCEPT ![p].i = @ + 1] /\ UNCHANGED pc
       ELSE pc' = [pc EXCEPT ![p] = "criteria"] /\ UNCHANGED iter
    /\ UNCHANGED <<ledgerVars, tiers, limiterVars, redemptionVars, challengeVars, ruleVars, seqVars, req, self_acct>>

(* _check_badge_criteria / _check_achievement_criteria.                    *)
criteria_step(p) ==
    /\ pc[p] = "criteria"
    /\ LET definition == Definitions(req[p].op)[iter[p].i]
           st == ReadFor(Store(self_acct[p], iter[p].awarded), definition)
           met == IF req[p].op = "check_and_award_badges"
                  THEN _check_badge_criteria(st, definition)
                  ELSE _check_achievement_criteria(st, definition)
       IN /\ self_acct' = [self_acct EXCEPT ![p] = st.instance]
          /\ IF met
             THEN pc' = [pc EXCEPT ![p] = "award"] /\ UNCHANGED iter
             ELSE /\ pc' = [pc EXCEPT ![p] = "exists"]
                  /\ iter' = [iter EXCEPT ![p].i = @ + 1]
    /\ UNCHANGED <<ledgerVars, tiers, limiterVars, redemptionVars, challengeVars, ruleVars, seqVars, req>>

(* _award_badge / _award_achievement, and the append to the returned list. *)
award_step(p, fault) ==
    /\ pc[p] = "award"
    /\ LET i == iter[p].i
           before == Store(self_acct[p], iter[p].awarded)
           st == IF req[p].op = "check_and_award_badges"
                 THEN IF fault = "none" THEN _award_badge(before, i)
                      ELSE transaction_atomic(before, _award_badge_block(before, i, fault))
                 ELSE IF fault = "none" THEN _award_achievement(before, i)
                      ELSE transaction_atomic(before, _award_achievement_block(before, i, fault))
       IN /\ Len(st.ledger) <= MaxLedger
          /\ Commit(st)
          /\ self_acct' = [self_acct EXCEPT ![p] = st.instance]
          /\ iter' = [iter EXCEPT ![p] =
                 [i |-> i + 1, awarded |-> st.awarded,
                  refused |-> IF i \in st.awarded THEN @.refused ELSE @.refused \cup {i}]]
    /\ pc' = [pc EXCEPT ![p] = "exists"]
    /\ UNCHANGED <<tiers, limiterVars, redemptionVars, challengeVars, ruleVars, seqVars, req>>

NextAward ==
    \/ \E points \in Amounts \ {0} : call_add_points(points)
    \/ \E p \in Procs, op \in AwardChecks : begin_check(p, op)
    \/ \E p \in Procs : exists_step(p)
    \/ \E p \in Procs : criteria_step(p)
    \/ \E p \in Procs, fault \in Faults : award_step(p, fault)
    \/ \E p \in Procs : finish(p)

SpecAward == Init /\ [][NextAward]_vars

---------------------------------------------------------------------------
(* CheckIn.process_rules, rule by rule.  The request holds the queryset it *)
(* iterates, its position, points_earned, the rules whose add_points       *)
(* returned (awarded) and those whose add_points raised (refused), the     *)
(* length of the ledger and the stored balance when it began, and its      *)
(* in-memory customer.loyalty_account.                                     *)

(* The statement of the try block that raises, or "none": the access to    *)
(* customer.loyalty_account, or save() / Transaction.objects.create of     *)
(* add_points.                                                             *)
AppendFaults == {"none", "loyalty_account", "save", "Transaction.objects.create"}

(* add_points that returns without writing.                                *)
add_points_deferred(st, points, description, rule, fault) == Returned(st)

(* add_points(points, description, location, rule) on the instance of      *)
(* st, up to the statement that raises.                                    *)
add_points_instance(st, points, description, rule, fault) ==
    IF fault = "loyalty_account" THEN Raised(st)
    ELSE LET s == loyalty_account(st)
             self == [s.instance EXCEPT !.points_balance = @ + points,
                                        !.lifetime_points = @ + points,
                                        !.last_activity = Len(s.ledger) + 1]
             checked == check_tier_eligibility(self)
         IN IF fault = "save" THEN Raised([s EXCEPT !.instance = self])
            ELSE IF fault = "Transaction.objects.create"
            THEN Raised([s EXCEPT !.instance = self, !.account = self])
            ELSE Returned([s EXCEPT
                     !.instance = checked,
                     !.account = checked,
                     !.ledger = Append(@,
                         [Transaction(points, "earn", <<>>) EXCEPT
                              !.description = description, !.rule_applied = rule])])

begin_process_rules(p) ==
    /\ \A q \in Procs : pc[q] = "idle"
    /\ account.points_balance - SumPoints(ledger, FALSE) < MaxDrift
    /\ req' = [req EXCEPT ![p] = [op |-> "process_rules", points |-> 0]]
    /\ iter' = [iter EXCEPT ![p] =
           [i |-> 1, awarded |-> {}, refused |-> {},
            rules |-> process_rules_filter(clock),
            ledger |-> Len(ledger), balance |-> account.points_balance]]
    /\ self_acct' = [self_acct EXCEPT ![p] = NotLoaded]
    /\ pc' = [pc EXCEPT ![p] = "rule"]
    /\ UNCHANGED <<ledgerVars, tiers, limiterVars, redemptionVars, challengeVars, ruleVars, seqVars>>

(* One turn of the loop: is_applicable, execute_action, and add_points     *)
(* inside try / except Exception: pass.                                    *)
rule_step(p, fault) ==
    /\ pc[p] = "rule"
    /\ iter[p].i <= Len(iter[p].rules)
    /\ LET r == iter[p].rules[iter[p].i]
           points == execute_action(r, clock, TRUE)
           before == [account |-> account, ledger |-> ledger, instance |-> self_acct[p]]
       IN IF is_applicable(r, clock, TRUE) /\ points # None /\ points # 0
          THEN LET call == add_points_instance(before, points,
                               [kind |-> "check-in", threshold |-> 0], r, fault)
               IN /\ Len(call.st.ledger) <= MaxLedger
                  /\ account' = call.st.account
                  /\ ledger' = call.st.ledger
                  /\ self_acct' = [self_acct EXCEPT ![p] = call.st.instance]
                  /\ req' = [req EXCEPT ![p].points =
                                IF call.raised THEN @ ELSE @ + points]
                  /\ iter' = [iter EXCEPT
                         ![p].i = @ + 1,
                         ![p].awarded = IF call.raised THEN @ ELSE @ \cup {r},
                         ![p].refused = IF call.raised THEN @ \cup {r} ELSE @]
          ELSE /\ fault = "none"
               /\ iter' = [iter EXCEPT ![p].i = @ + 1]
               /\ UNCHANGED <<account, ledger, self_acct, req>>
    /\ UNCHANGED <<customer_badges, customer_achievements, tiers, limiterVars, redemptionVars, challengeVars,
                   ruleVars, seqVars, pc>>

(* return points_earned.                                                   *)
return_points_earned(p) ==
    /\ pc[p] = "rule"
    /\ iter[p].i > Len(iter[p].rules)
    /\ pc' = [pc EXCEPT ![p] = "done"]
    /\ outcome' = [NoOutcome EXCEPT !.selected = iter[p].rules,
                                    !.points = req[p].points,
                                    !.reason = "process_rules"]
    /\ UNCHANGED <<ledgerVars, tiers, limiterVars, redemptionVars, challengeVars, clock, seqVars, req, self_acct, iter>>

Idle == \A q \in Procs : pc[q] = "idle"

(* One check-in at a time; the requests of SpecConc are the concurrent     *)
(* ones.                                                                   *)
NextCheckIn ==
    \/ \E p \in {1} : begin_process_rules(p)
    \/ \E p \in {1}, fault \in AppendFaults : rule_step(p, fault)
    \/ \E p \in {1} : return_points_earned(p)
    \/ \E p \in {1} : finish(p)
    \/ Idle /\ clock.day < MaxDay /\ next_day
    \/ Idle /\ \E points \in {600} : call_add_points(points)

SpecCheckIn == Init /\ [][NextCheckIn]_vars

---------------------------------------------------------------------------
(* The ledger's writers: the account's methods, Transaction.verify and     *)
(* Transaction.cancel, and the admin site's change form and delete action  *)
(* of TransactionAdmin, whose readonly_fields are id and timestamp only.   *)

(* TransactionAdmin's change form saved for the i-th row.                  *)
admin_change(i, points, transaction_type) ==
    /\ ledger' = [ledger EXCEPT ![i].points = points,
                                ![i].transaction_type = transaction_type]
    /\ result' = [raised |-> "none", returned |-> {}]
    /\ last_op' = Called("TransactionAdmin.change", points)
    /\ UNCHANGED <<account, customer_badges, customer_achievements, tiers, limiterVars, redemptionVars,
                   challengeVars, ruleVars, procVars>>

(* TransactionAdmin's delete of the i-th row.                              *)
admin_delete(i) ==
    /\ ledger' = SubSeq(ledger, 1, i - 1) \o SubSeq(ledger, i + 1, Len(ledger))
    /\ result' = [raised |-> "none", returned |-> {}]
    /\ last_op' = Called("TransactionAdmin.delete", 0)
    /\ UNCHANGED <<account, customer_badges, customer_achievements, tiers, limiterVars, redemptionVars,
                   challengeVars, ruleVars, procVars>>

NextLedger ==
    \/ /\ account.lifetime_points < MaxLedger * 600
       /\ \E points \in {600} : call_add_points(points)
    \/ \E points \in {600} : call_deduct_points(points)
    \/ \E i \in 1..Len(ledger) : cancel(i)
    \/ \E i \in 1..Len(ledger) : verify(i)
    \/ \E i \in 1..Len(ledger), points \in {800},
          transaction_type \in {"earn", "adjust"} :
           admin_change(i, points, transaction_type)
    \/ \E i \in 1..Len(ledger) : admin_delete(i)

SpecLedger == Init /\ [][NextLedger]_vars

---------------------------------------------------------------------------
(* Properties of the ledger and the account, under Spec *)

(* C1: points_balance equals the sum of the signed points of the account's *)
(* non-cancelled ledger entries, in every reachable state.                 *)
BalanceReconstruction ==
    account.points_balance = SumPoints(ledger, FALSE)

(* C2: lifetime_points equals the sum of the points of the account's       *)
(* non-cancelled ledger entries whose points are positive.                 *)
LifetimeReconstruction ==
    account.lifetime_points = SumPoints(ledger, TRUE)

Deducts(call) ==
    \/ call.op = "deduct_points"
    \/ call.op \in {"adjust_customer_points", "bulk_customer_action"}
          /\ call.points <= 0

DeductedBy(call) == Abs(call.points)

(* C4: deduct_points(p) with p > points_balance raises the insufficient-   *)
(* balance error and leaves points_balance, lifetime_points, last_activity *)
(* and the ledger unchanged (no new entry).                                *)
RedeemExceedingBalanceFails ==
    [][ (Deducts(last_op') /\ DeductedBy(last_op') > account.points_balance)
          => /\ result'.raised = "ValueError"
             /\ account' = account
             /\ ledger' = ledger ]_vars

(* C4 witness: a redeem of more than a positive balance was refused.       *)
RedeemRefused ==
    /\ Deducts(last_op)
    /\ DeductedBy(last_op) > account.points_balance
    /\ account.points_balance > 0
    /\ result.raised = "ValueError"

(* Whether the last call appended a positive ledger entry through          *)
(* add_points or a badge / achievement bonus.                              *)
PositiveAppend ==
    \/ last_op.op = "add_points"
    \/ last_op.op \in {"adjust_customer_points", "bulk_customer_action"}
          /\ last_op.points > 0
    \/ last_op.op = "check_and_award_badges"
          /\ \E b \in result.returned : Badges[b].points_reward > 0
    \/ last_op.op = "check_and_award_achievements"
          /\ \E a \in result.returned : Achievements[a].points_reward > 0

Threshold(tier) == IF tier = NoTier THEN -1 ELSE tiers[tier]

(* With Bronze 0 / Silver 500 / Gold 1000: lifetime 0, 600 and 1400        *)
(* reached by add_points hold Bronze, Silver and Gold.                     *)
TierScenario ==
    (tiers = <<0, 500, 1000>> /\ last_op.op = "add_points")
        => /\ account.lifetime_points = 0 => account.tier = 1
           /\ account.lifetime_points = 600 => account.tier = 2
           /\ account.lifetime_points = 1400 => account.tier = 3

(* C8: over any sequence of calls the points_threshold of the account's    *)
(* tier never decreases from one step to the next, and with thresholds     *)
(* Bronze 0, Silver 500, Gold 1000 an account passing lifetime 0, 600,     *)
(* 1400 holds Bronze, then Silver, then Gold.                              *)
TierNeverReverts ==
    /\ [][Threshold(account'.tier) >= Threshold(account.tier)]_vars
    /\ []TierScenario

(* C8 witness: add_points(0), add_points(600), add_points(800) took the    *)
(* account to Gold.                                                        *)
ReachedGoldInOrder ==
    /\ tiers = <<0, 500, 1000>>
    /\ Len(ledger) = 3
    /\ ledger[1].points = 0 /\ ledger[2].points = 600 /\ ledger[3].points = 800
    /\ \A i \in 1..3 : ledger[i].transaction_type = "earn"
    /\ last_op.op = "add_points"
    /\ account.lifetime_points = 1400
    /\ account.tier = 3

---------------------------------------------------------------------------
(* Properties of the award engines, under Spec *)

(* The ledger rows that are the bonus of one definition.                   *)
BonusRows(rows, tag, id) ==
    { i \in 1..Len(rows) : rows[i].metadata = <<tag, id>> }

---------------------------------------------------------------------------
(* Properties of concurrent requests, under SpecConc and SpecAward *)

(* C5: when two add_points(+10) calls on the account, each on its own      *)
(* loaded copy of the row, have run to completion from balance 0 in any    *)
(* interleaving of their steps, the stored points_balance is 20 and the    *)
(* stored lifetime_points is 20.                                           *)
ConcurrentAppendSafe ==
    ( /\ \A p \in Procs :
            pc[p] = "done" /\ req[p] = [op |-> "add_points", points |-> 10]
      /\ Len(ledger) = 2 )
        => account.points_balance = 20 /\ account.lifetime_points = 20

(* C6: no step of any account operation lowers the stored lifetime_points. *)
LifetimeNeverDecreases ==
    [][ account'.lifetime_points >= account.lifetime_points ]_vars

(* C10: however two check_and_award_badges (or                             *)
(* check_and_award_achievements) calls interleave, every definition has at *)
(* most one award record and at most one bonus row in the ledger, and the  *)
(* balance holds exactly the points of the ledger rows, so a reward is     *)
(* credited at most once.                                                  *)
NoDoubleAward ==
    /\ \A b \in 1..Len(Badges) :
          /\ customer_badges[b] <= 1
          /\ Cardinality(BonusRows(ledger, "badge_id", b)) <= customer_badges[b]
    /\ \A a \in 1..Len(Achievements) :
          /\ customer_achievements[a] <= 1
          /\ Cardinality(BonusRows(ledger, "achievement_id", a)) <= customer_achievements[a]
    /\ account.points_balance = SumPoints(ledger, FALSE)

(* C10 witness: two check_and_award_badges calls both passed the exists    *)
(* check for a badge with a reward; one awarded it, and the other's        *)
(* _award_badge returned None.                                             *)
DoubleAwardRefused ==
    \E p \in Procs, q \in Procs, b \in 1..Len(Badges) :
        /\ p # q
        /\ req[p].op = "check_and_award_badges"
        /\ req[q].op = "check_and_award_badges"
        /\ b \in iter[p].refused
        /\ b \in iter[q].awarded
        /\ Badges[b].points_reward > 0
        /\ customer_badges[b] = 1
        /\ Cardinality(BonusRows(ledger, "badge_id", b)) = 1

(* C11: each execution of _award_badge / _award_achievement for a          *)
(* definition with points_reward > 0 commits either the award record, one  *)
(* bonus row of points_reward and the increase of balance and lifetime by  *)
(* points_reward, or none of them and returns None; in every state a       *)
(* rewarded definition has as many bonus rows as award records, and the    *)
(* balance holds exactly the points of the ledger rows.                    *)
AwardAllOrNothing ==
    /\ [][ \A p \in Procs :
             (pc[p] = "award" /\ pc'[p] = "exists") =>
               LET i == iter[p].i
                   badge == req[p].op = "check_and_award_badges"
                   reward == Definitions(req[p].op)[i].points_reward
                   tag == IF badge THEN "badge_id" ELSE "achievement_id"
                   records == IF badge THEN customer_badges ELSE customer_achievements
                   records_after == IF badge THEN customer_badges' ELSE customer_achievements'
               IN reward > 0 =>
                    \/ /\ records_after[i] = records[i] + 1
                       /\ ledger' = Append(ledger, Transaction(reward, "earn", <<tag, i>>))
                       /\ account'.points_balance = account.points_balance + reward
                       /\ account'.lifetime_points = account.lifetime_points + reward
                       /\ i \in iter'[p].awarded
                    \/ /\ UNCHANGED ledgerVars
                       /\ i \notin iter'[p].awarded ]_vars
    /\ [](\A a \in 1..Len(Achievements) :
             Achievements[a].points_reward > 0 =>
                 Cardinality(BonusRows(ledger, "achievement_id", a)) = customer_achievements[a])
    /\ [](account.points_balance = SumPoints(ledger, FALSE))

(* C11 witness: an award of a badge with a reward was rolled back (nothing *)
(* of it is stored and the call got None) while an achievement with a      *)
(* reward is stored whole.                                                 *)
AwardRolledBack ==
    \E p \in Procs, b \in 1..Len(Badges), a \in 1..Len(Achievements) :
        /\ req[p].op = "check_and_award_badges"
        /\ b \in iter[p].refused
        /\ Badges[b].points_reward > 0
        /\ customer_badges[b] = 0
        /\ BonusRows(ledger, "badge_id", b) = {}
        /\ Achievements[a].points_reward > 0
        /\ customer_achievements[a] = 1
        /\ Cardinality(BonusRows(ledger, "achievement_id", a)) = 1

---------------------------------------------------------------------------
(* Properties of the challenges, under SpecChallenge *)

(* C12: a participation is completed only together with its bonus and its  *)
(* badge: in every state a completed participation of a challenge with     *)
(* points_reward > 0 has its bonus row in the ledger, and one with a       *)
(* badge_reward has that badge's record.                                   *)
ChallengeCompletionAtomic ==
    \A k \in 1..Len(customer_challenges) :
        LET c == customer_challenges[k].challenge
        IN customer_challenges[k].status = "completed" =>
             /\ Challenges[c].points_reward > 0 =>
                    Cardinality(BonusRows(ledger, "challenge_id", c)) = 1
             /\ Challenges[c].badge_reward # None =>
                    customer_badges[Challenges[c].badge_reward] > 0

(* C13: an update_challenge_progress call that moves a participation from  *)
(* active to completed appends one bonus row of points_reward, and no call *)
(* changes a completed participation or adds a bonus row for it.           *)
ChallengeCompletesOnce ==
    [][ \A k \in 1..Len(customer_challenges) :
          LET c == customer_challenges[k].challenge
              bonus == BonusRows(ledger, "challenge_id", c)
              bonus_after == BonusRows(ledger', "challenge_id", c)
          IN /\ (customer_challenges[k].status = "active"
                   /\ customer_challenges'[k].status = "completed"
                   /\ Challenges[c].points_reward > 0)
                  => Cardinality(bonus_after) = Cardinality(bonus) + 1
             /\ customer_challenges[k].status = "completed"
                  => /\ customer_challenges'[k] = customer_challenges[k]
                     /\ bonus_after = bonus ]_vars

---------------------------------------------------------------------------
(* Properties of Transaction.cancel, under Spec *)

(* C16: Transaction.cancel either is refused with an invalid-state error   *)
(* and changes no row, or it cancels a pending row and appends a reversal  *)
(* row of the opposite sign.                                               *)
CancelOnlyPending ==
    [][ last_op'.op = "Transaction.cancel" =>
          \/ /\ ledger' = ledger
             /\ result'.raised = "InvalidState"
          \/ \E i \in 1..Len(ledger) :
                /\ ledger[i].status = "pending"
                /\ Len(ledger') = Len(ledger) + 1
                /\ SubSeq(ledger', 1, Len(ledger)) = [ledger EXCEPT ![i].status = "cancelled"]
                /\ ledger'[Len(ledger')].points = 0 - ledger[i].points ]_vars

---------------------------------------------------------------------------
(* Properties of the rule engine, under SpecRules and SpecEval *)

RulesOfType(types) ==
    { r \in 1..Len(Rules) :
        DOMAIN Rules[r].conditions # {} /\ Get(Rules[r].conditions, "type", "") \in types }

(* The step is an evaluation of rule r: it sets the outcome, or appends    *)
(* the row of r's result.                                                  *)
EvaluationOf(r) ==
    /\ outcome'.rule = r
    /\ clock' = clock
    /\ \/ outcome' # outcome
       \/ /\ Len(ledger') = Len(ledger) + 1
          /\ ledger'[Len(ledger')].rule_applied = r

(* C14: lifetime_points crosses the milestones 500 and 1000 of a rule in   *)
(* one event; the first evaluation pays the 1000 milestone, and every      *)
(* evaluation of the rule after a payout of it is not applicable.          *)
MilestoneExactlyOnce ==
    [][ \A r \in RulesOfType({"milestone_based"}) :
          EvaluationOf(r) =>
            IF \E i \in 1..Len(ledger) : ledger[i].rule_applied = r
            THEN ~ outcome'.applicable /\ ledger' = ledger
            ELSE outcome'.applicable => outcome'.marker.threshold = 1000 ]_vars

(* The first day of the period of a frequency type that holds day.         *)
PeriodStart(frequency_type, day) ==
    CASE frequency_type = "daily" -> day
      [] frequency_type = "weekly" -> WeekStart(day)
      [] frequency_type = "monthly" -> MonthStart(day)

(* The completed rows of rule r in the period of day.                      *)
InPeriod(rows, r, day) ==
    { i \in 1..Len(rows) :
        /\ rows[i].rule_applied = r
        /\ rows[i].status = "completed"
        /\ PeriodStart(Rules[r].conditions.frequency_type, rows[i].timestamp)
             = PeriodStart(Rules[r].conditions.frequency_type, day) }

WellFormedFrequencyRules ==
    { r \in RulesOfType({"frequency_based"}) :
        Has(Rules[r].conditions, "limit") /\ Has(Rules[r].conditions, "frequency_type") }

(* C15: an evaluation of a frequency rule that finds limit completed rows  *)
(* of the rule in the current period is refused with the limit-reached     *)
(* reason and appends nothing, and no period ever holds more than limit    *)
(* completed rows of the rule.                                             *)
FrequencyLimit ==
    /\ [][ \A r \in WellFormedFrequencyRules :
             (EvaluationOf(r)
                /\ Cardinality(InPeriod(ledger, r, clock.day)) >= Rules[r].conditions.limit)
               => /\ ~ outcome'.applicable
                  /\ outcome'.reason = LimitReached(Rules[r].conditions.frequency_type)
                  /\ ledger' = ledger ]_vars
    /\ [](\A r \in WellFormedFrequencyRules, day \in 0..MaxDay :
             Cardinality(InPeriod(ledger, r, day)) <= Rules[r].conditions.limit)

(* C15 witness: the daily rule with limit 1 was applied today and its next *)
(* evaluation the same day was refused, after it had been applied on an    *)
(* earlier day as well.                                                    *)
SecondApplicationRefused ==
    \E r \in WellFormedFrequencyRules :
        /\ Rules[r].conditions.frequency_type = "daily"
        /\ Rules[r].conditions.limit = 1
        /\ outcome.rule = r
        /\ ~ outcome.applicable
        /\ outcome.reason = "Daily limit reached"
        /\ Cardinality(InPeriod(ledger, r, clock.day)) = 1
        /\ \E day \in 0..MaxDay : day < clock.day /\ InPeriod(ledger, r, day) # {}

(* The rules a query at clk is to select.                                  *)
ActiveNow(clk) ==
    { r \in 1..Len(Rules) :
        /\ Rules[r].active
        /\ Rules[r].start_date <= Timestamp(clk)
        /\ Rules[r].end_date = None \/ Rules[r].end_date >= Timestamp(clk) }

(* C17: get_active_rules returns exactly the rules that are active, have   *)
(* started and have no end_date or one not yet passed, by priority         *)
(* descending and then created_at ascending.                               *)
RuleSelection ==
    [][ (outcome'.reason = "get_active_rules" /\ clock' = clock) =>
          /\ { outcome'.selected[i] : i \in 1..Len(outcome'.selected) } = ActiveNow(clock)
          /\ \A i, j \in 1..Len(outcome'.selected) :
                i < j => Before(outcome'.selected[i], outcome'.selected[j]) ]_vars

(* C18: a rule whose conditions carry no type tag, or one that is none of  *)
(* the seven families, is never applicable.                                *)
UnknownTypeSkipped ==
    \A r \in 1..Len(Rules) :
        (outcome.rule = r /\ Get(Rules[r].conditions, "type", "") \notin rule_processors)
            => ~ outcome.applicable /\ outcome.points = 0

(* C19: no evaluation raises; a rule with a malformed payload is answered  *)
(* with applicable = false.                                                *)
EvaluatorsNeverRaise ==
    outcome.raised = "none"

(* Some window of the rule holds the weekday and the minute of clk.        *)
InsideWindow(r, clk) ==
    \E i \in 1..Len(Rules[r].conditions.time_windows) :
        LET window == Rules[r].conditions.time_windows[i]
        IN /\ window.start[1] * 60 + window.start[2] <= clk.minute
           /\ clk.minute <= window.end[1] * 60 + window.end[2]
           /\ Has(window, "days") => (window.days = {} \/ Weekday(clk.day) \in window.days)

WellFormedTimeRules ==
    { r \in RulesOfType({"time_based"}) :
        \A i \in 1..Len(Rules[r].conditions.time_windows) :
            Has(Rules[r].conditions.time_windows[i], "start")
            /\ Has(Rules[r].conditions.time_windows[i], "end") }

(* C20: a time-based rule is applicable exactly when a window holds the    *)
(* weekday and the time, and then its points are base_points x multiplier  *)
(* (the multiplier counts halves); the happy hour rule gives 20 at 18:00   *)
(* on a Wednesday and is not applicable at 20:00.                          *)
TimeBasedRule ==
    [][ \A r \in WellFormedTimeRules :
          (outcome'.rule = r /\ clock' = clock) =>
            /\ outcome'.applicable <=> InsideWindow(r, clock)
            /\ outcome'.applicable =>
                 outcome'.points * 2 = Rules[r].points * Rules[r].conditions.multiplier
            /\ (r = 1 /\ Weekday(clock.day) = 2 /\ clock.minute = 1080)
                 => outcome'.applicable /\ outcome'.points = 20
            /\ (r = 1 /\ clock.minute = 1200) => ~ outcome'.applicable ]_vars

---------------------------------------------------------------------------
(* Properties of CheckIn.process_rules, under SpecCheckIn *)

(* The rows the check-in of request p has appended so far.                 *)
AppendedBy(p) == { i \in 1..Len(ledger) : i > iter[p].ledger }

RECURSIVE SumRulePoints(_)
SumRulePoints(S) ==
    IF S = {} THEN 0
    ELSE LET r == CHOOSE x \in S : TRUE
         IN Rules[r].points + SumRulePoints(S \ {r})

RECURSIVE SumRowPoints(_)
SumRowPoints(S) ==
    IF S = {} THEN 0
    ELSE LET i == CHOOSE x \in S : TRUE
         IN ledger[i].points + SumRowPoints(S \ {i})

(* C21: whenever a check-in is at the head of its loop, about to evaluate  *)
(* the next rule, the ledger holds one row for every rule of this event    *)
(* whose add_points has returned, and the stored balance holds their       *)
(* points.                                                                 *)
EvaluateThenApply ==
    \A p \in Procs :
        pc[p] = "rule" =>
            /\ \A r \in iter[p].awarded :
                   \E i \in AppendedBy(p) :
                       ledger[i].rule_applied = r /\ ledger[i].points = Rules[r].points
            /\ Cardinality(AppendedBy(p)) = Cardinality(iter[p].awarded)
            /\ account.points_balance - iter[p].balance >= SumRulePoints(iter[p].awarded)

(* C21 witness: the first rule of the event has been applied and the       *)
(* second is about to be evaluated.                                        *)
SecondRuleSeesFirst ==
    \E p \in Procs :
        /\ pc[p] = "rule"
        /\ iter[p].i = 2
        /\ Len(iter[p].rules) >= 2
        /\ iter[p].awarded = {iter[p].rules[1]}
        /\ ledger[Len(ledger)].rule_applied = iter[p].rules[1]

(* C22: when a check-in returns, no rule whose append failed has a row of  *)
(* this event, every selected rule was either applied or refused, and the  *)
(* returned points_earned is the sum of the points of the rows this call   *)
(* appended and is the change of the stored balance.                       *)
RuleFailureIsolated ==
    \A p \in Procs :
        (pc[p] = "done" /\ req[p].op = "process_rules") =>
            /\ \A r \in iter[p].refused :
                   \A i \in AppendedBy(p) : ledger[i].rule_applied # r
            /\ { iter[p].rules[k] : k \in 1..Len(iter[p].rules) }
                   = iter[p].awarded \cup iter[p].refused
            /\ req[p].points = SumRowPoints(AppendedBy(p))
            /\ req[p].points = account.points_balance - iter[p].balance

---------------------------------------------------------------------------
(* Properties of the ledger's rows, under SpecLedger *)

(* C23: no step removes a ledger row or changes the points, the            *)
(* transaction_type or the timestamp of an existing row.                   *)
LedgerAppendOnly ==
    [][ /\ Len(ledger') >= Len(ledger)
        /\ \A i \in 1..Len(ledger) :
              /\ ledger'[i].points = ledger[i].points
              /\ ledger'[i].transaction_type = ledger[i].transaction_type
              /\ ledger'[i].timestamp = ledger[i].timestamp ]_vars

---------------------------------------------------------------------------
(* Properties of the milestone and streak evaluations, under SpecRules *)

WellFormedMilestoneRules ==
    { r \in RulesOfType({"milestone_based"}) :
        \A k \in 1..Len(Rules[r].conditions.milestones) :
            /\ Has(Rules[r].conditions.milestones[k], "threshold")
            /\ Has(Rules[r].conditions.milestones[k], "bonus_points") }

(* The milestones of rule r that are reached and have no row of the rule   *)
(* carrying their own marker.                                              *)
Unpaid(r) ==
    { k \in 1..Len(Rules[r].conditions.milestones) :
        /\ Rules[r].conditions.milestones[k].threshold <= account.lifetime_points
        /\ ~ \E i \in 1..Len(ledger) :
               /\ ledger[i].rule_applied = r
               /\ ledger[i].description =
                      [kind |-> "milestone",
                       threshold |-> Rules[r].conditions.milestones[k].threshold] }

(* C24: an evaluation of a milestone rule pays the bonus_points of the     *)
(* reached milestone with the highest threshold among those without their  *)
(* own marker, and is not applicable when there is none; the marker of one *)
(* threshold does not stand for another threshold.                         *)
MilestoneSelection ==
    [][ \A r \in WellFormedMilestoneRules :
          EvaluationOf(r) =>
            IF Unpaid(r) = {} THEN ~ outcome'.applicable
            ELSE \E k \in Unpaid(r) :
                   /\ \A j \in Unpaid(r) :
                          Rules[r].conditions.milestones[j].threshold
                              <= Rules[r].conditions.milestones[k].threshold
                   /\ outcome'.applicable
                   /\ outcome'.points = Rules[r].conditions.milestones[k].bonus_points
                   /\ outcome'.marker.threshold
                          = Rules[r].conditions.milestones[k].threshold ]_vars

(* The number of days before today, going backward without a gap, that    *)
(* have a completed row of rule r.                                         *)
RECURSIVE PreviousDays(_, _)
PreviousDays(r, k) ==
    IF k > 30 \/ RuleRows(ledger, r, {clock.day - k}) = {} THEN 0
    ELSE 1 + PreviousDays(r, k + 1)

StreakRules ==
    { r \in WellFormedFrequencyRules :
        /\ Get(Rules[r].conditions, "streak_bonus", 0) > 0
        /\ Rules[r].conditions.frequency_type = "daily"
        /\ Rules[r].conditions.limit = 1 }

(* C25: the first application of the day of a daily limit-1 streak rule    *)
(* by a customer who earned through the rule on each of the k previous     *)
(* days awards rule.points + k x streak_bonus.                             *)
StreakBonus ==
    [][ \A r \in StreakRules :
          (EvaluationOf(r) /\ outcome'.applicable) =>
             /\ outcome'.bonus_points
                    = PreviousDays(r, 1) * Rules[r].conditions.streak_bonus
             /\ outcome'.points = Rules[r].points + outcome'.bonus_points ]_vars

---------------------------------------------------------------------------
(* Evaluations of the tier rules on an account that climbs the tiers.      *)

NextTier ==
    \/ \E points \in Amounts \ {0} : call_add_points(points)
    \/ \E r \in RulesOfType({"tier_based"}) : apply_advanced_rule(r)

SpecTier == Init /\ [][NextTier]_vars

(* The multiplier of the lowest tier of a table: its smallest one.         *)
LowestMultiplier(table) ==
    CHOOSE m \in { table[name] : name \in DOMAIN table } :
        \A name \in DOMAIN table : m <= table[name]

(* The multiplier a tier rule is to use for the account.                   *)
TierMultiplierFor(r) ==
    LET table == Rules[r].conditions.tier_multipliers
    IN IF account.tier # NoTier /\ Lower(TierNames[account.tier]) \in DOMAIN table
       THEN table[Lower(TierNames[account.tier])]
       ELSE LowestMultiplier(table)

(* C26: a tier rule yields base_points x the multiplier of the account's   *)
(* tier, and x the multiplier of the table's lowest tier when the account  *)
(* has no tier or its tier has no entry (multipliers count halves).        *)
TierMultiplierDefault ==
    [][ \A r \in RulesOfType({"tier_based"}) :
          EvaluationOf(r) =>
             /\ outcome'.applicable
             /\ outcome'.points * 2 = Rules[r].points * TierMultiplierFor(r) ]_vars

---------------------------------------------------------------------------
(* Challenge progress while ledger rows come and go.                       *)

NextProgress ==
    \/ /\ account.lifetime_points < MaxLedger * 800
       /\ \E points \in Amounts \ {0} : call_add_points(points)
    \/ \E c \in 1..Len(Challenges) : create_challenge_participation(c)
    \/ \E fault \in Faults : update_challenge_progress(fault)
    \/ \E i \in 1..Len(ledger) : admin_delete(i)

SpecProgress == Init /\ [][NextProgress]_vars

(* C27: no step lowers the current_progress of a participation, and in     *)
(* every state a participation is completed exactly when its               *)
(* current_progress has reached the target_value of its challenge.         *)
ChallengeProgressInvariant ==
    /\ [][ \A k \in 1..Len(customer_challenges) :
             customer_challenges'[k].current_progress
                 >= customer_challenges[k].current_progress ]_vars
    /\ [](\A k \in 1..Len(customer_challenges) :
             customer_challenges[k].status = "completed"
                 <=> customer_challenges[k].current_progress
                        >= Challenges[customer_challenges[k].challenge].target_value)

(* C27 witness: after an update_challenge_progress call an active          *)
(* participation keeps a progress above the recomputed value, and another  *)
(* participation is completed.                                             *)
LowerProgressIgnored ==
    /\ last_op.op = "update_challenge_progress"
    /\ \E k \in 1..Len(customer_challenges) :
          /\ customer_challenges[k].status = "active"
          /\ customer_challenges[k].current_progress
                 > _calculate_challenge_progress(
                       ledger, Challenges[customer_challenges[k].challenge])
    /\ \E k \in 1..Len(customer_challenges) :
          customer_challenges[k].status = "completed"

---------------------------------------------------------------------------
(* Concurrent deduct_points requests on a balance earned beforehand.       *)

NextRedeem ==
    \/ Idle /\ \E points \in {600} : call_add_points(points)
    \/ \E p \in Procs, points \in ConcAmounts : begin(p, "deduct_points", points)
    \/ \E p \in Procs : deduct_points_save(p)
    \/ \E p \in Procs : create_transaction(p)
    \/ \E p \in Procs : finish(p)

SpecRedeem == Init /\ [][NextRedeem]_vars

(* Properties of concurrent redeems, under SpecRedeem *)

RowsOfType(transaction_type) ==
    { i \in 1..Len(ledger) : ledger[i].transaction_type = transaction_type }

(* C28: from a balance of 600 earned in one row, when two                  *)
(* deduct_points(600) calls, each on its own loaded copy of the row, have  *)
(* run to completion in any interleaving, at most one redeem row was       *)
(* appended, and the stored balance is 600 minus the redeemed points and   *)
(* is not negative.                                                        *)
ConcurrentRedeemsSafe ==
    ( /\ \A p \in Procs :
            /\ pc[p] \in {"done", "raised"}
            /\ req[p] = [op |-> "deduct_points", points |-> 600]
      /\ \E i \in 1..Len(ledger) :
            RowsOfType("earn") = {i} /\ ledger[i].points = 600 )
        => /\ Cardinality(RowsOfType("redeem")) <= 1
           /\ account.points_balance = 600 - 600 * Cardinality(RowsOfType("redeem"))
           /\ account.points_balance >= 0

---------------------------------------------------------------------------
(* RateLimiter.is_allowed for one key, statement by statement: the read of *)
(* the stored list, then the check and the write.  limit and window are    *)
(* those of the decorator of the view.                                     *)

RATE_LIMITS == [limit |-> 2, window |-> 2]

(* The request times later than window_start.                              *)
RecentRequests(times, window_start) ==
    LET Recent(req_time) == req_time > window_start
    IN SelectSeq(times, Recent)

tick_time ==
    /\ \A p \in Procs : pc[p] = "idle"
    /\ time < MaxTime
    /\ time' = time + 1
    /\ UNCHANGED <<ledgerVars, tiers, challengeVars, ruleVars, seqVars, procVars,
                   cache, memory, requests, allowed, redemptionVars>>

(* now = time.time(); requests = cache.get(cache_key, []), and the old     *)
(* request times removed from the copy.                                    *)
is_allowed_get(p) ==
    /\ pc[p] = "idle"
    /\ requests' = [requests EXCEPT ![p] =
           [now |-> time,
            requests |-> RecentRequests(cache, time - RATE_LIMITS.window)]]
    /\ pc' = [pc EXCEPT ![p] = "got"]
    /\ UNCHANGED <<ledgerVars, tiers, challengeVars, ruleVars, seqVars,
                   req, self_acct, iter, time, cache, memory, allowed, redemptionVars>>

(* The check against limit, and requests.append(now) with cache.set.       *)
is_allowed_set(p) ==
    /\ pc[p] = "got"
    /\ IF Len(requests[p].requests) >= RATE_LIMITS.limit
       THEN UNCHANGED <<cache, allowed>>
       ELSE /\ cache' = Append(requests[p].requests, requests[p].now)
            /\ allowed' = Append(allowed, requests[p].now)
    /\ requests' = [requests EXCEPT ![p] = NoRequest]
    /\ pc' = [pc EXCEPT ![p] = "idle"]
    /\ UNCHANGED <<ledgerVars, tiers, challengeVars, ruleVars, seqVars,
                   req, self_acct, iter, time, memory, redemptionVars>>

(* The cache raises: the except branch works on self.requests[key].        *)
is_allowed_fallback(p) ==
    /\ pc[p] = "idle"
    /\ LET kept == RecentRequests(memory, time - RATE_LIMITS.window)
       IN IF Len(kept) >= RATE_LIMITS.limit
          THEN memory' = kept /\ UNCHANGED allowed
          ELSE memory' = Append(kept, time) /\ allowed' = Append(allowed, time)
    /\ UNCHANGED <<ledgerVars, tiers, challengeVars, ruleVars, seqVars, procVars,
                   time, cache, requests, redemptionVars>>

NextLimiter ==
    \/ tick_time
    \/ \E p \in Procs : is_allowed_get(p)
    \/ \E p \in Procs : is_allowed_set(p)
    \/ \E p \in Procs : is_allowed_fallback(p)

SpecLimiter == Init /\ [][NextLimiter]_vars

(* The calls let through in the window seconds that end with second t.     *)
AllowedWithin(t) ==
    { i \in 1..Len(allowed) :
        allowed[i] > t - RATE_LIMITS.window /\ allowed[i] <= t }

(* C29: at most limit calls for the key are let through within any window  *)
(* seconds, and a refused call leaves the stored list as it was.           *)
RateLimitBound ==
    /\ [](\A t \in 0..MaxTime : Cardinality(AllowedWithin(t)) <= RATE_LIMITS.limit)
    /\ [][ \A p \in Procs :
             (pc[p] = "got" /\ pc'[p] = "idle"
                /\ Len(requests[p].requests) >= RATE_LIMITS.limit)
               => cache' = cache /\ memory' = memory ]_vars

---------------------------------------------------------------------------
(* One Redemption and its Reward.  A caller holds the instance it loaded;  *)
(* save() writes that instance over the stored row.                        *)

AdminActions == {"fulfill_redemptions", "cancel_redemptions"}

RedemptionMethods == {"fulfill", "cancel", "expire"}

(* "Refund for cancelled redemption: <reward.name>".                       *)
RefundDescription == [kind |-> "refund", threshold |-> 0]

(* The instance is loaded: by the admin action through                     *)
(* queryset.filter(status="pending"), or by any other caller of a method.  *)
get_redemption(p, op) ==
    /\ pc[p] = "idle"
    /\ op \in AdminActions => redemption.status = "pending"
    /\ self_redemption' = [self_redemption EXCEPT ![p] =
           [loaded |-> TRUE, status |-> redemption.status,
            points_used |-> redemption.points_used]]
    /\ req' = [req EXCEPT ![p] = [op |-> op, points |-> redemption.points_used]]
    /\ pc' = [pc EXCEPT ![p] = "redemption"]
    /\ UNCHANGED <<ledgerVars, tiers, limiterVars, redemption, rewards,
                   challengeVars, ruleVars, seqVars, self_acct, iter>>

(* The caller is done with its instance.                                   *)
Release(p) ==
    /\ pc' = [pc EXCEPT ![p] = "idle"]
    /\ self_redemption' = [self_redemption EXCEPT ![p] = NotLoaded]

(* fulfill(): the status is set and saved, whatever it was.                *)
redemption_fulfill(p) ==
    /\ pc[p] = "redemption"
    /\ req[p].op \in {"fulfill", "fulfill_redemptions"}
    /\ redemption' = [status |-> "fulfilled",
                      points_used |-> self_redemption[p].points_used]
    /\ Release(p)
    /\ UNCHANGED <<ledgerVars, tiers, limiterVars, rewards, challengeVars,
                   ruleVars, seqVars, req, self_acct, iter>>

(* expire(): the status is set and saved, whatever it was.                 *)
redemption_expire(p) ==
    /\ pc[p] = "redemption"
    /\ req[p].op = "expire"
    /\ redemption' = [status |-> "expired",
                      points_used |-> self_redemption[p].points_used]
    /\ Release(p)
    /\ UNCHANGED <<ledgerVars, tiers, limiterVars, rewards, challengeVars,
                   ruleVars, seqVars, req, self_acct, iter>>

(* cancel(): on an instance that is pending, the status is saved, then the *)
(* points are added back and the inventory restored; an exception of the   *)
(* refund is swallowed.                                                    *)
redemption_cancel(p, fault) ==
    /\ pc[p] = "redemption"
    /\ req[p].op \in {"cancel", "cancel_redemptions"}
    /\ Len(ledger) < MaxLedger
    /\ IF self_redemption[p].status = "pending"
       THEN /\ redemption' = [status |-> "cancelled",
                              points_used |-> self_redemption[p].points_used]
            /\ IF fault = "none"
               THEN /\ add_points_rule(self_redemption[p].points_used,
                                       RefundDescription, None)
                    /\ rewards' = [rewards EXCEPT !.quantity_available = @ + 1]
               ELSE UNCHANGED <<account, ledger, result, rewards>>
       ELSE UNCHANGED <<account, ledger, result, redemption, rewards>>
    /\ Release(p)
    /\ UNCHANGED <<customer_badges, customer_achievements, tiers, limiterVars,
                   challengeVars, ruleVars, last_op, req, self_acct, iter>>

NextRedemption ==
    \/ \E p \in Procs, op \in AdminActions \cup RedemptionMethods :
           get_redemption(p, op)
    \/ \E p \in Procs : redemption_fulfill(p)
    \/ \E p \in Procs : redemption_expire(p)
    \/ \E p \in Procs, fault \in {"none", "add_points"} : redemption_cancel(p, fault)

SpecRedemption == Init /\ [][NextRedemption]_vars

(* The refund rows of the ledger.                                          *)
Refunds == { i \in 1..Len(ledger) : ledger[i].description = RefundDescription }

(* C30: a redemption that has left pending keeps its status; points are    *)
(* refunded and the inventory restored only in a step that takes the       *)
(* redemption from pending to cancelled, at most once; a refunded          *)
(* redemption is never fulfilled.                                          *)
RedemptionTerminal ==
    /\ [][ redemption.status # "pending"
             => redemption'.status = redemption.status ]_vars
    /\ [][ (ledger' # ledger \/ rewards' # rewards)
             => redemption.status = "pending" /\ redemption'.status = "cancelled" ]_vars
    /\ [](Cardinality(Refunds) <= 1 /\ rewards.quantity_available <= 1)
    /\ [](Refunds # {} => redemption.status # "fulfilled")

=============================================================================
